---- MODULE Spec2Model ----
(***************************************************************************)
(* A model of validator/validator.py (qontract-validator): the four        *)
(* per-unit validators, the two tree walkers, the schema pointer navigator  *)
(* and the orchestrator main().                                             *)
(*                                                                          *)
(* Representation.                                                          *)
(*  - A Python str is a sequence of lexemes.  A lexeme is "/", ".", one     *)
(*    decimal digit, or a run of other characters ("$ref", "http:", "a").   *)
(*    Splitting on "/", str.isdigit, str.startswith and os.path.splitext    *)
(*    are computed on that sequence.                                        *)
(*  - A JSON value is a record [t, v]: t is "obj", "arr", "str" or "null";  *)
(*    v is the ordered sequence of <<key, value>> pairs of a dict (Python 3 *)
(*    dicts iterate in insertion order), the items of a list, the lexemes   *)
(*    of a string.                                                          *)
(*  - A call returns [exc, val]: exc = "none" and the value, or the name of *)
(*    the exception that leaves the call.                                   *)
(*  - The interpreter is Python 3 (the code uses json.JSONDecodeError):     *)
(*    dict.items() is a live view and its iterator raises RuntimeError when *)
(*    the dict has changed size.                                            *)
(***************************************************************************)
EXTENDS Integers, Sequences, FiniteSets, TLC

VARIABLES
    schemas_bundle,     \* bundle['schemas']
    data_bundle,        \* bundle['data']
    pc,                 \* where main() stands
    it,                 \* the iterator of the running pass: [pos, used]
    results_schemas, results_files, results_refs, results_res_paths,
    results, errors,
    only_errors,        \* the --only-errors flag
    stdout,             \* what main() wrote
    exit_code,          \* the exit status of the process, -1 while it runs
    exc,                \* the exception that ended the run, "none" otherwise
    run,                \* the number of the run over the in-memory bundle
    prev,               \* how the earlier run over this bundle ended
    lib,                \* what the collaborators (jsonschema, requests, the
                        \* file system) answered, by unit
    call                \* the last call of a unit and what it returned

main_vars == <<pc, it, results_schemas, results_files, results_refs,
               results_res_paths, results, errors, only_errors, stdout,
               exit_code, exc, run, prev, lib>>

main_vars_but_pc == <<it, results_schemas, results_files, results_refs,
                      results_res_paths, results, errors, only_errors, stdout,
                      exit_code, exc, run, prev, lib>>

vars == <<schemas_bundle, data_bundle, main_vars, call>>

----------------------------------------------------------------------------
(* Bounds *)

MaxDepth == 2
MaxCalls == 2
MaxSchemas == 2
MaxDocs == 2
MaxRuns == 2
MaxFaults == 1

----------------------------------------------------------------------------
(* JSON values and Python strings *)

Obj(kv) == [t |-> "obj", v |-> kv]
Arr(xs) == [t |-> "arr", v |-> xs]
Str(s) == [t |-> "str", v |-> s]
Null == [t |-> "null", v |-> <<>>]

Ret(x) == [exc |-> "none", val |-> x]
Raise(e) == [exc |-> e, val |-> Null]

K_schema == <<"$schema">>
K_ref == <<"$ref">>
K_schemaRef == <<"$schemaRef">>
K_properties == <<"properties">>
K_items == <<"items">>
K_provider == <<"provider">>
K_path == <<"path">>

Digits == <<"0", "1", "2", "3", "4", "5", "6", "7", "8", "9">>

\* key in d, for a dict d
HasKey(d, k) == \E i \in 1..Len(d.v) : d.v[i][1] = k

\* d[k], for a dict d that has the key
ValueOf(d, k) == d.v[CHOOSE i \in 1..Len(d.v) : d.v[i][1] = k][2]

\* x.get(k) in the place of x[k]: None for a missing key
SubscriptGet(x, k) ==
    IF x.t = "obj"
    THEN IF HasKey(x, k) THEN Ret(ValueOf(x, k)) ELSE Ret(Null)
    ELSE Raise("TypeError")

\* x[k] with a str key k: KeyError on a dict without the key, TypeError on a
\* list, a str or None
Subscript(x, k) ==
    IF x.t = "obj"
    THEN IF HasKey(x, k) THEN Ret(ValueOf(x, k)) ELSE Raise("KeyError")
    ELSE Raise("TypeError")

\* str(index) for index >= 0
RECURSIVE IntToStr(_)
IntToStr(n) ==
    IF n < 10 THEN <<Digits[n + 1]>>
    ELSE IntToStr(n \div 10) \o <<Digits[(n % 10) + 1]>>

\* "{}/{}".format(ptr, key) and "{}/{}".format(ptr, index)
FormatPtr(ptr, s) == ptr \o <<"/">> \o s

----------------------------------------------------------------------------
(* find_refs *)

RECURSIVE find_refs(_, _, _), find_refs_dict(_, _, _, _), find_refs_list(_, _, _, _)

\* find_refs without the else: a $ref object is recorded and walked
find_refs_descending(obj, ptr, refs) ==
    IF obj.t = "obj"
    THEN find_refs_dict(obj.v, 1, ptr,
                        IF HasKey(obj, K_ref) THEN Append(refs, <<ptr, obj>>) ELSE refs)
    ELSE IF obj.t = "arr"
         THEN find_refs_list(obj.v, 1, ptr, refs)
         ELSE refs

\* the recursive call with all three arguments given
find_refs(obj, ptr, refs) ==
    IF obj.t = "obj"
    THEN IF HasKey(obj, K_ref)
         THEN Append(refs, <<ptr, obj>>)
         ELSE find_refs_dict(obj.v, 1, ptr, refs)
    ELSE IF obj.t = "arr"
         THEN find_refs_list(obj.v, 1, ptr, refs)
         ELSE refs

\* for key, item in obj.items(): the loop from its i-th entry on
find_refs_dict(kv, i, ptr, refs) ==
    IF i > Len(kv) THEN refs
    ELSE find_refs_dict(kv, i + 1, ptr,
                        find_refs(kv[i][2], FormatPtr(ptr, kv[i][1]), refs))

\* for index, item in enumerate(obj): the loop from its i-th item on
find_refs_list(xs, i, ptr, refs) ==
    IF i > Len(xs) THEN refs
    ELSE find_refs_list(xs, i + 1, ptr,
                        find_refs(xs[i], FormatPtr(ptr, IntToStr(i - 1)), refs))

\* the top-level call find_refs(obj): ptr and refs are None and are replaced
\* by "" and a new list
find_refs_top(obj) == find_refs(obj, <<>>, <<>>)

----------------------------------------------------------------------------
(* find_resource_paths *)

K_resource == <<"resource">>

\* 'provider' in obj and obj['provider'] == 'resource' and 'path' in obj
IsResourceObj(obj) ==
    /\ HasKey(obj, K_provider)
    /\ ValueOf(obj, K_provider) = Str(K_resource)
    /\ HasKey(obj, K_path)

RECURSIVE find_resource_paths(_, _, _), find_resource_paths_dict(_, _, _, _), find_resource_paths_list(_, _, _, _)

find_resource_paths(obj, ptr, paths) ==
    IF obj.t = "obj"
    THEN IF IsResourceObj(obj)
         THEN Append(paths, <<ptr, obj>>)
         ELSE find_resource_paths_dict(obj.v, 1, ptr, paths)
    ELSE IF obj.t = "arr"
         THEN find_resource_paths_list(obj.v, 1, ptr, paths)
         ELSE paths

find_resource_paths_dict(kv, i, ptr, paths) ==
    IF i > Len(kv) THEN paths
    ELSE find_resource_paths_dict(kv, i + 1, ptr,
             find_resource_paths(kv[i][2], FormatPtr(ptr, kv[i][1]), paths))

find_resource_paths_list(xs, i, ptr, paths) ==
    IF i > Len(xs) THEN paths
    ELSE find_resource_paths_list(xs, i + 1, ptr,
             find_resource_paths(xs[i], FormatPtr(ptr, IntToStr(i - 1)), paths))

find_resource_paths_top(obj) == find_resource_paths(obj, <<>>, <<>>)

----------------------------------------------------------------------------
(* get_schema_info_from_pointer *)

\* s.split("/"): the chunks between the "/" lexemes; cur is the chunk being
\* read and acc the chunks already closed
RECURSIVE SplitFrom(_, _, _, _)
SplitFrom(s, i, cur, acc) ==
    IF i > Len(s) THEN Append(acc, cur)
    ELSE IF s[i] = "/" THEN SplitFrom(s, i + 1, <<>>, Append(acc, cur))
         ELSE SplitFrom(s, i + 1, Append(cur, s[i]), acc)

Split(s) == SplitFrom(s, 1, <<>>, <<>>)

IsDigitLexeme(c) == \E d \in 1..Len(Digits) : Digits[d] = c

\* chunk.isdigit(): not empty and every character a digit
isdigit(chunk) == Len(chunk) > 0 /\ \A i \in 1..Len(chunk) : IsDigitLexeme(chunk[i])

\* the loop body for one chunk, on the value info
SchemaStep(info, chunk) ==
    IF isdigit(chunk)
    THEN Subscript(info, K_items)
    ELSE LET props == Subscript(info, K_properties) IN
         IF props.exc # "none" THEN props ELSE Subscript(props.val, chunk)

\* for chunk in chunks: the loop from its i-th chunk on
RECURSIVE SchemaLoop(_, _, _)
SchemaLoop(info, chunks, i) ==
    IF i > Len(chunks) THEN Ret(info)
    ELSE LET r == SchemaStep(info, chunks[i]) IN
         IF r.exc # "none" THEN r ELSE SchemaLoop(r.val, chunks, i + 1)

get_schema_info_from_pointer(schema, ptr) == SchemaLoop(schema, Tail(Split(ptr)), 1)

----------------------------------------------------------------------------
(* ValidatedFileKind and the ValidationResult classes *)

SCHEMA == "SCHEMA"
DATA_FILE == "FILE"
REF == "REF"
RESOURCE_PATH == "RESOURCE_PATH"

\* kwargs and the "result" dict of dump() are functions from field names to
\* values; NoKwargs is the empty one
NoKwargs == <<>>

ValidationOK(kind, filename, schema_url) ==
    [cls |-> "ValidationOK", status |-> TRUE, kind |-> kind,
     filename |-> filename, schema_url |-> schema_url]

ValidationRefOK(kind, filename, ref, schema_url) ==
    [cls |-> "ValidationRefOK", status |-> TRUE, kind |-> kind,
     filename |-> filename, schema_url |-> schema_url, ref |-> ref]

ValidationError(kind, filename, reason, error, kwargs) ==
    [cls |-> "ValidationError", status |-> FALSE, kind |-> kind,
     filename |-> filename, reason |-> reason, error |-> error,
     kwargs |-> kwargs]

\* hasattr(self, name): the attributes set by __init__ (kwargs is one
\* attribute; its entries are not attributes)
hasattr(self, name) == name \in DOMAIN self

\* the parts of the summary line, in order
summary(self) ==
    <<IF self.status THEN "OK" ELSE "ERROR", self.filename>>
    \o (IF hasattr(self, "ref") THEN <<self.ref>> ELSE <<>>)
    \o (IF hasattr(self, "schema_url") THEN <<self.schema_url>> ELSE <<>>)

dump(self) ==
    IF self.cls = "ValidationOK"
    THEN [filename |-> self.filename, kind |-> self.kind,
          result |-> [summary |-> summary(self), status |-> "OK",
                      schema_url |-> self.schema_url]]
    ELSE IF self.cls = "ValidationRefOK"
    THEN [filename |-> self.filename, ref |-> self.ref, kind |-> self.kind,
          result |-> [summary |-> summary(self), status |-> "OK",
                      schema_url |-> self.schema_url, ref |-> self.ref]]
    ELSE [filename |-> self.filename, kind |-> self.kind,
          \* result.update(self.kwargs): an entry of kwargs replaces a field
          result |-> self.kwargs @@ [summary |-> summary(self), status |-> "ERROR",
                                     reason |-> self.reason, error |-> self.error]]

----------------------------------------------------------------------------
(* Bundles: dicts from str to document, as ordered sequences of <<key, doc>> *)

\* a dict or a list cannot be a dict key
Hashable(k) == k.t \notin {"obj", "arr"}

BundleHas(b, k) == k.t = "str" /\ \E i \in 1..Len(b) : b[i][1] = k.v

\* key in bundle
BundleIn(b, k) == IF Hashable(k) THEN Ret(BundleHas(b, k)) ELSE Raise("TypeError")

\* bundle[key]
BundleGet(b, k) ==
    IF ~Hashable(k) THEN Raise("TypeError")
    ELSE IF BundleHas(b, k)
         THEN Ret(b[CHOOSE i \in 1..Len(b) : b[i][1] = k.v][2])
         ELSE Raise("KeyError")

\* bundle[key] = doc for a str key that is not in the bundle
BundleInsert(b, k, doc) == Append(b, <<k.v, doc>>)

HttpLexemes == {"http:", "https:"}

\* s.startswith('http'), s.startswith('/')
StartsWithHttp(s) == Len(s) > 0 /\ s[1] \in HttpLexemes
StartsWithSlash(s) == Len(s) > 0 /\ s[1] = "/"

----------------------------------------------------------------------------
(* fetch_schema: response is what requests.get, raise_for_status and
   anymarkup.parse give for the URL: the parsed document or an exception *)

fetch_schema(schema_url, response) ==
    IF schema_url.t # "str" THEN Raise("AttributeError")
    ELSE IF StartsWithHttp(schema_url.v) THEN response
         ELSE Raise("MissingSchemaFile")

----------------------------------------------------------------------------
(* validate_schema: returns [ret, sb], the returned result or the exception
   that leaves the call, and the schema bundle as the call leaves it.
   verdict is what check_schema and validate do: "ok" or the exception *)

LibSchemaVerdicts == {"ok", "ValidationError", "SchemaError", "RefResolutionError"}

SchemaVerdict(filename, meta_schema_url, verdict) ==
    IF verdict = "ValidationError"
    THEN Ret(ValidationError(SCHEMA, filename, "VALIDATION_ERROR", verdict,
                             [meta_schema_url |-> meta_schema_url]))
    ELSE IF verdict \in {"SchemaError", "RefResolutionError"}
    THEN Ret(ValidationError(SCHEMA, filename, "SCHEMA_ERROR", verdict,
                             [meta_schema_url |-> meta_schema_url]))
    ELSE Ret(ValidationOK(SCHEMA, filename, meta_schema_url))

\* lines 166-170: the meta-schema from the bundle, or fetched and inserted
MetaSchemaLookup(sb, meta_schema_url, response) ==
    LET known == BundleIn(sb, meta_schema_url) IN
    IF known.exc # "none" THEN [exc |-> known.exc, sb |-> sb]
    ELSE IF known.val THEN [exc |-> "none", sb |-> sb]
    ELSE LET fetched == fetch_schema(meta_schema_url, response) IN
         IF fetched.exc # "none" THEN [exc |-> fetched.exc, sb |-> sb]
         ELSE [exc |-> "none", sb |-> BundleInsert(sb, meta_schema_url, fetched.val)]

validate_schema(sb, filename, schema_data, response, verdict) ==
    LET url == Subscript(schema_data, K_schema) IN
    IF url.exc = "KeyError"
    THEN [ret |-> Ret(ValidationError(SCHEMA, filename, "MISSING_SCHEMA_URL",
                                      "KeyError", NoKwargs)),
          sb |-> sb]
    ELSE IF url.exc # "none" THEN [ret |-> Raise(url.exc), sb |-> sb]
    ELSE LET meta == MetaSchemaLookup(sb, url.val, response) IN
         IF meta.exc # "none" THEN [ret |-> Raise(meta.exc), sb |-> meta.sb]
         ELSE [ret |-> SchemaVerdict(filename, url.val, verdict), sb |-> meta.sb]

----------------------------------------------------------------------------
(* validate_file *)

LibFileVerdicts == {"ok", "ValidationError", "SchemaError", "TypeError"}

\* lines 203-204
NormalizeSchemaUrl(s) ==
    IF ~StartsWithHttp(s) /\ ~StartsWithSlash(s) THEN <<"/">> \o s ELSE s

\* lines 212-230: only the three exceptions named are caught
FileVerdict(filename, schema_url, verdict) ==
    IF verdict = "ValidationError"
    THEN Ret(ValidationError(DATA_FILE, filename, "VALIDATION_ERROR", verdict,
                             [schema_url |-> schema_url]))
    ELSE IF verdict = "SchemaError"
    THEN Ret(ValidationError(DATA_FILE, filename, "SCHEMA_ERROR", verdict,
                             [schema_url |-> schema_url]))
    ELSE IF verdict = "TypeError"
    THEN Ret(ValidationError(DATA_FILE, filename, "SCHEMA_TYPE_ERROR", verdict,
                             [schema_url |-> schema_url]))
    ELSE IF verdict = "ok"
    THEN Ret(ValidationOK(DATA_FILE, filename, schema_url))
    ELSE Raise(verdict)

validate_file(sb, filename, data, verdict) ==
    LET url == Subscript(data, K_schema) IN
    IF url.exc = "KeyError"
    THEN Ret(ValidationError(DATA_FILE, filename, "MISSING_SCHEMA_URL",
                             "KeyError", NoKwargs))
    ELSE IF url.exc # "none" THEN Raise(url.exc)
    ELSE IF url.val.t # "str" THEN Raise("AttributeError")
    ELSE LET schema_url == Str(NormalizeSchemaUrl(url.val.v))
             schema == BundleGet(sb, schema_url)
         IN  IF schema.exc = "KeyError"
             THEN Ret(ValidationError(DATA_FILE, filename, "SCHEMA_NOT_FOUND",
                                      "KeyError", [schema_url |-> schema_url]))
             ELSE FileVerdict(filename, schema_url, verdict)

----------------------------------------------------------------------------
(* validate_ref: verdict is what Draft4Validator(expected_schema).validate
   does with the referenced document *)

LibRefVerdicts == {"ok", "ValidationError"}

\* lines 269-289, with ref_data, schema_info and data['$schema'] in hand
CheckExpectedSchema(filename, data_schema, ref_value, ref_data, schema_info, verdict) ==
    IF schema_info.t # "obj" THEN Raise("AttributeError")
    ELSE LET expected_schema == IF HasKey(schema_info, K_schemaRef)
                                THEN ValueOf(schema_info, K_schemaRef)
                                ELSE Null
             ok == Ret(ValidationRefOK(REF, filename, ref_value, data_schema))
         IN  IF expected_schema = Null THEN ok
             ELSE IF expected_schema.t = "str"
             THEN LET got == Subscript(ref_data, K_schema) IN
                  IF got.exc # "none" THEN Raise(got.exc)
                  ELSE IF expected_schema # got.val
                  THEN Ret(ValidationError(REF, filename, "INCORRECT_SCHEMA",
                                           "IncorrectSchema", [ref |-> ref_value]))
                  ELSE ok
             ELSE IF verdict = "ValidationError"
                  THEN Ret(ValidationError(REF, filename,
                                           "SCHEMA_REF_VALIDATION_ERROR",
                                           verdict, NoKwargs))
                  ELSE ok

validate_ref(sb, bundle, filename, data, ptr, ref, verdict) ==
    LET ref_value == ValueOf(ref, K_ref)
        ref_data == BundleGet(bundle, ref_value)
    IN
    IF ref_data.exc = "KeyError"
    THEN Ret(ValidationError(REF, filename, "FILE_NOT_FOUND", "KeyError",
                             [ref |-> ref_value]))
    ELSE IF ref_data.exc # "none" THEN Raise(ref_data.exc)
    ELSE LET data_schema == Subscript(data, K_schema)
             schema == IF data_schema.exc # "none" THEN data_schema
                       ELSE BundleGet(sb, data_schema.val)
         IN
         IF schema.exc = "KeyError"
         THEN Ret(ValidationError(REF, filename, "SCHEMA_NOT_FOUND", "KeyError",
                                  [ref |-> ref_value]))
         ELSE IF schema.exc # "none" THEN Raise(schema.exc)
         ELSE LET schema_info == get_schema_info_from_pointer(schema.val, ptr) IN
              IF schema_info.exc = "KeyError"
              THEN Ret(ValidationError(REF, filename, "SCHEMA_DEFINITION_NOT_FOUND",
                                       "KeyError", [ref |-> ref_value]))
              ELSE IF schema_info.exc # "none" THEN Raise(schema_info.exc)
              ELSE CheckExpectedSchema(filename, data_schema.val, ref_value,
                                       ref_data.val, schema_info.val, verdict)

----------------------------------------------------------------------------
(* validate_resource_paths: file is what open and the parser find at
   'resources' + res['path']: [st |-> "absent"], [st |-> "garbage"] (not
   parseable) or [st |-> "parsed", val |-> the parsed value] *)

K_apiVersion == <<"apiVersion">>
K_metadata == <<"metadata">>
K_kind == <<"kind">>
K_data == <<"data">>

valid_json_ext == {<<".", "json">>}
valid_yaml_ext == {<<".", "yml">>, <<".", "yaml">>}
valid_extensions == valid_json_ext \cup valid_yaml_ext

\* the largest index of c in s, 0 when there is none (s.rfind(c) + 1)
RFind(s, c) ==
    IF \E i \in 1..Len(s) : s[i] = c
    THEN CHOOSE i \in 1..Len(s) : s[i] = c /\ \A j \in (i + 1)..Len(s) : s[j] # c
    ELSE 0

\* os.path.splitext(p)[1]: from the last dot of the last path component on,
\* unless only dots precede it in that component
splitext_ext(p) ==
    LET sepIndex == RFind(p, "/")
        dotIndex == RFind(p, ".")
    IN  IF dotIndex > sepIndex
           /\ \E i \in (sepIndex + 1)..(dotIndex - 1) : p[i] # "."
        THEN SubSeq(p, dotIndex, Len(p))
        ELSE <<>>

\* k in resourcedata, for a str k
Contains(x, k) ==
    IF x.t = "obj" THEN Ret(HasKey(x, k))
    ELSE IF x.t = "arr" THEN Ret(\E i \in 1..Len(x.v) : x.v[i] = Str(k))
    ELSE IF x.t = "str"
    THEN Ret(\E i \in 1..Len(x.v) :
                 i + Len(k) - 1 <= Len(x.v) /\ SubSeq(x.v, i, i + Len(k) - 1) = k)
    ELSE Raise("TypeError")

\* lines 314-343
LoadResource(ext, file) ==
    IF file.st = "absent" THEN Raise("IOError")
    ELSE IF file.st = "garbage"
    THEN IF ext \in valid_yaml_ext THEN Raise("YAMLError") ELSE Raise("JSONDecodeError")
    ELSE Ret(file.val)

\* lines 345-366
CheckResource(filename, data, path, resourcedata) ==
    LET invalid == Ret(ValidationError(RESOURCE_PATH, filename, "INVALID_OBJECT",
                                       "message", [res |-> path]))
        hasApi == Contains(resourcedata, K_apiVersion)
        hasMeta == Contains(resourcedata, K_metadata)
        hasKind == Contains(resourcedata, K_kind)
    IN
    IF hasApi.exc # "none" THEN Raise(hasApi.exc)
    ELSE IF ~(hasApi.val /\ hasMeta.val /\ hasKind.val) THEN invalid
    ELSE LET kind == Subscript(resourcedata, K_kind) IN
         IF kind.exc # "none" THEN Raise(kind.exc)
         ELSE IF kind.val \in {Str(<<"ConfigMap">>), Str(<<"Secret">>)}
                 /\ ~Contains(resourcedata, K_data).val
              THEN invalid
              ELSE LET data_schema == Subscript(data, K_schema) IN
                   IF data_schema.exc # "none" THEN Raise(data_schema.exc)
                   ELSE Ret(ValidationRefOK(RESOURCE_PATH, filename, path,
                                            data_schema.val))

validate_resource_paths(sb, bundle, filename, data, ptr, res, file) ==
    LET path == ValueOf(res, K_path) IN
    IF path.t # "str" THEN Raise("TypeError")
    ELSE LET ext == splitext_ext(path.v) IN
         IF ext \notin valid_extensions
         THEN Ret(ValidationError(RESOURCE_PATH, filename, "MISSING_EXTENSION",
                                  "message", [res |-> path]))
         ELSE LET resourcedata == LoadResource(ext, file) IN
              IF resourcedata.exc = "IOError"
              THEN Ret(ValidationError(RESOURCE_PATH, filename, "FILE_NOT_FOUND",
                                       "message", [res |-> path]))
              ELSE IF resourcedata.exc = "YAMLError"
              THEN Ret(ValidationError(RESOURCE_PATH, filename, "INVALID_YAML",
                                       "message", [res |-> path]))
              ELSE IF resourcedata.exc = "JSONDecodeError"
              THEN Ret(ValidationError(RESOURCE_PATH, filename, "INVALID_JSON",
                                       "message", [res |-> path]))
              ELSE CheckResource(filename, data, path, resourcedata.val)

----------------------------------------------------------------------------
(* Documents for the tree walkers: a spine of at most MaxDepth containers
   around a leaf, each container holding the spine alone or the spine and one
   sibling, before or after it *)

KeyA == <<"a">>
KeyZ == <<"z">>
KeyDigit == <<"0">>
KeySlash == <<"a", "/", "b">>
WalkKeys == {KeyA, KeyDigit, KeySlash}

NameE == <<"E">>
NameF == <<"F">>

RefObj(target) == Obj(<<<<K_ref, Str(target)>>>>)
\* a $ref object that holds another $ref object
RefInRef == Obj(<<<<K_ref, Str(NameE)>>, <<KeyA, RefObj(NameF)>>>>)

WalkLeaves == {Str(<<"x">>), RefObj(NameE), RefInRef}
WalkSiblings == {Str(<<"x">>), RefObj(NameF)}

Wraps(cur) ==
    {Obj(<<<<k, cur>>>>) : k \in WalkKeys}
    \cup {Obj(<<<<k, cur>>, <<KeyZ, s>>>>) : k \in WalkKeys, s \in WalkSiblings}
    \cup {Obj(<<<<KeyZ, RefObj(NameF)>>, <<k, cur>>>>) : k \in WalkKeys}
    \cup {Arr(<<cur>>)}
    \cup {Arr(<<s, cur>>) : s \in WalkSiblings}
    \cup {Arr(<<cur, s>>) : s \in WalkSiblings}

RECURSIVE WalkDocs(_)
WalkDocs(d) ==
    IF d = 0 THEN WalkLeaves
    ELSE LET T == WalkDocs(d - 1) IN T \cup UNION {Wraps(t) : t \in T}

----------------------------------------------------------------------------
(* SpecFind: top-level calls of find_refs, one after the other *)

\* main() is not running
MainIdle ==
    /\ it = [pos |-> 0, used |-> 0]
    /\ results_schemas = <<>>
    /\ results_files = <<>>
    /\ results_refs = <<>>
    /\ results_res_paths = <<>>
    /\ results = <<>>
    /\ errors = <<>>
    /\ only_errors = FALSE
    /\ stdout = <<>>
    /\ exit_code = -1
    /\ exc = "none"
    /\ run = 0
    /\ prev = <<>>
    /\ lib = <<>>

InitFind ==
    /\ schemas_bundle = <<>>
    /\ data_bundle = <<>>
    /\ MainIdle
    /\ pc = "call"
    /\ \E d \in WalkDocs(MaxDepth) :
          call = [fn |-> "find_refs", obj |-> d, ret |-> <<>>, n |-> 1]

CallFindRefs ==
    /\ pc = "call"
    /\ call.fn = "find_refs"
    /\ call' = [call EXCEPT !.ret = find_refs_top(call.obj)]
    /\ pc' = "returned"
    /\ UNCHANGED <<schemas_bundle, data_bundle, it, results_schemas, results_files,
                   results_refs, results_res_paths, results, errors, only_errors,
                   stdout, exit_code, exc, run, prev, lib>>

NextFindRefs ==
    /\ pc = "returned"
    /\ call.fn = "find_refs"
    /\ call.n < MaxCalls
    /\ \E d \in WalkLeaves \cup Wraps(RefObj(NameE)) :
          call' = [fn |-> "find_refs", obj |-> d, ret |-> <<>>, n |-> call.n + 1]
    /\ pc' = "call"
    /\ UNCHANGED <<schemas_bundle, data_bundle, it, results_schemas, results_files,
                   results_refs, results_res_paths, results, errors, only_errors,
                   stdout, exit_code, exc, run, prev, lib>>

NextFind == CallFindRefs \/ NextFindRefs

SpecFind == InitFind /\ [][NextFind]_vars

----------------------------------------------------------------------------
(* The $ref sites of a document, by position: a position path is the
   sequence of child positions (1-based) from the root *)

NumChildren(n) == IF n.t \in {"obj", "arr"} THEN Len(n.v) ELSE 0
Child(n, j) == IF n.t = "obj" THEN n.v[j][2] ELSE n.v[j]
\* the key, or the 0-based array index, that leads to the j-th child
StepName(n, j) == IF n.t = "obj" THEN n.v[j][1] ELSE IntToStr(j - 1)

RECURSIVE Paths(_)
Paths(n) ==
    {<<>>} \cup UNION {{<<j>> \o q : q \in Paths(Child(n, j))} : j \in 1..NumChildren(n)}

RECURSIVE NodeAt(_, _)
NodeAt(n, p) == IF p = <<>> THEN n ELSE NodeAt(Child(n, p[1]), Tail(p))

RECURSIVE PtrAt(_, _)
PtrAt(n, p) ==
    IF p = <<>> THEN <<>>
    ELSE <<"/">> \o StepName(n, p[1]) \o PtrAt(Child(n, p[1]), Tail(p))

IsRefObj(n) == n.t = "obj" /\ HasKey(n, K_ref)

RefSites(doc) ==
    {p \in Paths(doc) :
        /\ IsRefObj(NodeAt(doc, p))
        /\ \A m \in 0..(Len(p) - 1) : ~IsRefObj(NodeAt(doc, SubSeq(p, 1, m)))}

\* p comes before q in a depth-first, left-to-right traversal
Before(p, q) ==
    \E m \in 1..Len(p) :
        /\ m <= Len(q)
        /\ SubSeq(p, 1, m - 1) = SubSeq(q, 1, m - 1)
        /\ p[m] < q[m]

RankOf(S, p) == 1 + Cardinality({q \in S : Before(q, p)})

\* C8: a top-level find_refs call returns exactly one (pointerPath, object)
\* pair for each object that holds "$ref" and is not inside another such
\* object, in traversal order, the path being the "/"-joined keys and indices
\* from the root; nothing inside a matched object is returned and nothing of
\* an earlier call is carried over.
C8_FindRefsCompletePrecise ==
    (call.fn = "find_refs" /\ pc = "returned") =>
        LET S == RefSites(call.obj) IN
        /\ Len(call.ret) = Cardinality(S)
        /\ \A p \in S :
              call.ret[RankOf(S, p)] = <<PtrAt(call.obj, p), NodeAt(call.obj, p)>>

\* a second call, on a document with two sites one of which sits beside a
\* $ref object that holds a $ref object, after a first call that found sites
C8_Witness ==
    /\ call.fn = "find_refs"
    /\ pc = "returned"
    /\ call.n = 2
    /\ Len(call.ret) = 1
    /\ call.obj.t = "arr"
    /\ Len(call.obj.v) = 2

----------------------------------------------------------------------------
(* The bundles main() is run on *)

SchemaS == <<"/", "s">>
SchemaT == <<"/", "t">>
MetaUrl == <<"http:", "/", "/", "m">>
NameD == <<"D">>
PathYml == <<"/", "r", ".", "yml">>

ResObj(path) == Obj(<<<<K_provider, Str(K_resource)>>, <<K_path, Str(path)>>>>)

\* the meta-schema the URL serves: it names itself as its meta-schema
MetaSchemaDoc == Obj(<<<<K_schema, Str(MetaUrl)>>>>)

FetchResponses == {Ret(MetaSchemaDoc), Raise("HTTPError")}

\* a schema for documents with a key "a" that must refer to a /s document
SchemaBody == <<<<K_properties,
                  Obj(<<<<KeyA, Obj(<<<<K_schemaRef, Str(SchemaS)>>>>)>>>>)>>>>

MainSchemaDocs ==
    {Obj(meta \o SchemaBody) :
        meta \in {<<>>, <<<<K_schema, Str(MetaUrl)>>>>, <<<<K_schema, Str(SchemaT)>>>>}}

MainFieldValues == {RefObj(NameE), ResObj(PathYml)}

MainDataDocs ==
    {Obj(sch \o fld) :
        sch \in {<<>>, <<<<K_schema, Str(SchemaS)>>>>},
        fld \in {<<>>} \cup {<<<<KeyA, x>>>> : x \in MainFieldValues}}

\* a Kubernetes object, a ConfigMap without data, and an empty YAML file
GoodResource ==
    Obj(<<<<K_apiVersion, Str(<<"v">>)>>, <<K_metadata, Obj(<<>>)>>,
          <<K_kind, Str(<<"Pod">>)>>>>)
BareConfigMap ==
    Obj(<<<<K_apiVersion, Str(<<"v">>)>>, <<K_metadata, Obj(<<>>)>>,
          <<K_kind, Str(<<"ConfigMap">>)>>>>)
ResourceFiles ==
    {[st |-> "absent", val |-> Null], [st |-> "garbage", val |-> Null],
     [st |-> "parsed", val |-> GoodResource],
     [st |-> "parsed", val |-> BareConfigMap],
     [st |-> "parsed", val |-> Null]}

\* the dicts of at most n entries with keys in K and values in D, in every
\* insertion order
RECURSIVE Dicts(_, _, _)
Dicts(K, D, n) ==
    IF n = 0 THEN {<<>>}
    ELSE LET P == Dicts(K, D, n - 1) IN
         P \cup {Append(b, <<k, d>>) :
                    b \in P, k \in K, d \in D}

UniqueKeys(b) == \A i, j \in 1..Len(b) : b[i][1] = b[j][1] => i = j

SchemaBundles == {b \in Dicts({SchemaS, SchemaT}, MainSchemaDocs, MaxSchemas) : UniqueKeys(b)}
DataBundles == {b \in Dicts({NameD, NameE}, MainDataDocs, MaxDocs) : UniqueKeys(b)}

----------------------------------------------------------------------------
(* main() *)

NoCall == [fn |-> "none"]

\* the answer of a collaborator that finds nothing wrong
DefaultAnswer(key) ==
    IF key[1] = "fetch" THEN Ret(MetaSchemaDoc)
    ELSE IF key[1] = "open" THEN [st |-> "parsed", val |-> GoodResource]
    ELSE "ok"

\* the units a collaborator has answered otherwise
Faults == {k \in DOMAIN lib : lib[k] # DefaultAnswer(k)}

\* the answer of a collaborator for a unit: the one it gave before (the
\* bundle, the network and the files do not change between the runs), else
\* any, while fewer than MaxFaults units have been answered with a fault
Consult(key, options) ==
    IF key \in DOMAIN lib THEN {lib[key]}
    ELSE IF Cardinality(Faults) < MaxFaults THEN options
    ELSE {DefaultAnswer(key)}

\* the units of the third and fourth passes, in the order of the nested loops
RECURSIVE RefUnits(_, _), ResUnits(_, _)
RefUnits(bundle, i) ==
    IF i > Len(bundle) THEN <<>>
    ELSE LET found == find_refs_top(bundle[i][2]) IN
         [j \in 1..Len(found) |->
             [filename |-> bundle[i][1], data |-> bundle[i][2],
              ptr |-> found[j][1], ref |-> found[j][2]]]
         \o RefUnits(bundle, i + 1)
ResUnits(bundle, i) ==
    IF i > Len(bundle) THEN <<>>
    ELSE LET found == find_resource_paths_top(bundle[i][2]) IN
         [j \in 1..Len(found) |->
             [filename |-> bundle[i][1], data |-> bundle[i][2],
              ptr |-> found[j][1], res |-> found[j][2]]]
         \o ResUnits(bundle, i + 1)

\* x['result']['status'] == 'ERROR'
IsErrorRecord(x) == x.result.status = "ERROR"

\* the groups concatenated with the documents first
AggregateFilesFirst(rs, rf, rr, rp) == rf \o rs \o rr \o rp

\* line 474
Aggregate(rs, rf, rr, rp) == rs \o rf \o rr \o rp

\* the exit status with the comparison off by one
ExitStatusOffByOne(errs) == IF Len(errs) > 1 THEN 1 ELSE 0

\* lines 483-484: sys.exit(1), or the return that ends the process with 0
ExitStatus(errs) == IF Len(errs) > 0 THEN 1 ELSE 0

\* line 475
RECURSIVE FilterErrors(_)
FilterErrors(rs) ==
    IF rs = <<>> THEN <<>>
    ELSE (IF IsErrorRecord(Head(rs)) THEN <<Head(rs)>> ELSE <<>>) \o FilterErrors(Tail(rs))

StartRun ==
    /\ pc = "schemas"
    /\ it = [pos |-> 1, used |-> Len(schemas_bundle)]
    /\ results_schemas = <<>>
    /\ results_files = <<>>
    /\ results_refs = <<>>
    /\ results_res_paths = <<>>
    /\ results = <<>>
    /\ errors = <<>>
    /\ only_errors = FALSE
    /\ stdout = <<>>
    /\ exit_code = -1
    /\ exc = "none"
    /\ call = NoCall

Init ==
    /\ schemas_bundle \in SchemaBundles
    /\ data_bundle \in DataBundles
    /\ run = 1
    /\ prev = <<>>
    /\ lib = <<>>
    /\ StartRun

\* an exception leaves main(): traceback, exit status 1, nothing written
Abort(e) ==
    /\ pc' = "aborted"
    /\ exc' = e
    /\ exit_code' = 1

\* lines 446-449, one schema: the iterator of schemas_bundle.items() yields
\* the next entry and validate_schema runs on it
ValidateSchemaUnit ==
    /\ pc = "schemas"
    /\ Len(schemas_bundle) = it.used
    /\ it.pos <= Len(schemas_bundle)
    /\ LET filename == schemas_bundle[it.pos][1]
           schema_data == schemas_bundle[it.pos][2]
           fkey == <<"fetch", filename, <<>>>>
           vkey == <<"SCHEMA", filename, <<>>>>
       IN  \E response \in Consult(fkey, FetchResponses) :
           \E verdict \in Consult(vkey, LibSchemaVerdicts) :
              LET r == validate_schema(schemas_bundle, Str(filename), schema_data,
                                       response, verdict)
                  asked_f == \E o \in FetchResponses :
                                validate_schema(schemas_bundle, Str(filename),
                                                schema_data, o, verdict).ret # r.ret
                  asked_v == \E o \in LibSchemaVerdicts :
                                validate_schema(schemas_bundle, Str(filename),
                                                schema_data, response, o).ret # r.ret
              IN  /\ schemas_bundle' = r.sb
                  /\ lib' = (IF asked_f THEN (fkey :> response) ELSE <<>>)
                            @@ (IF asked_v THEN (vkey :> verdict) ELSE <<>>) @@ lib
                  /\ call' = [fn |-> "validate_schema", filename |-> filename,
                              data |-> schema_data, ret |-> r.ret]
                  /\ IF r.ret.exc # "none"
                     THEN /\ Abort(r.ret.exc)
                          /\ UNCHANGED <<it, results_schemas>>
                     ELSE /\ results_schemas' = Append(results_schemas, dump(r.ret.val))
                          /\ it' = [it EXCEPT !.pos = it.pos + 1]
                          /\ UNCHANGED <<pc, exc, exit_code>>
    /\ UNCHANGED <<data_bundle, results_files, results_refs, results_res_paths,
                   results, errors, only_errors, stdout, run, prev>>

\* the iterator finds the dict larger than when the loop began
SchemasChangedSize ==
    /\ pc = "schemas"
    /\ Len(schemas_bundle) # it.used
    /\ Abort("RuntimeError")
    /\ UNCHANGED <<schemas_bundle, data_bundle, it, results_schemas, results_files,
                   results_refs, results_res_paths, results, errors, only_errors,
                   stdout, run, prev, lib, call>>

SchemasDone ==
    /\ pc = "schemas"
    /\ Len(schemas_bundle) = it.used
    /\ it.pos > Len(schemas_bundle)
    /\ pc' = "files"
    /\ it' = [pos |-> 1, used |-> Len(data_bundle)]
    /\ UNCHANGED <<schemas_bundle, data_bundle, results_schemas, results_files,
                   results_refs, results_res_paths, results, errors, only_errors,
                   stdout, exit_code, exc, run, prev, lib, call>>

\* lines 452-455, one document
ValidateFileUnit ==
    /\ pc = "files"
    /\ it.pos <= Len(data_bundle)
    /\ LET filename == data_bundle[it.pos][1]
           data == data_bundle[it.pos][2]
           vkey == <<"FILE", filename, <<>>>>
       IN  \E verdict \in Consult(vkey, LibFileVerdicts) :
              LET r == validate_file(schemas_bundle, Str(filename), data, verdict)
                  asked == \E o \in LibFileVerdicts :
                              validate_file(schemas_bundle, Str(filename), data, o) # r
              IN  /\ lib' = (IF asked THEN (vkey :> verdict) ELSE <<>>) @@ lib
                  /\ call' = [fn |-> "validate_file", filename |-> filename,
                              data |-> data, ret |-> r]
                  /\ IF r.exc # "none"
                     THEN /\ Abort(r.exc)
                          /\ UNCHANGED <<it, results_files>>
                     ELSE /\ results_files' = Append(results_files, dump(r.val))
                          /\ it' = [it EXCEPT !.pos = it.pos + 1]
                          /\ UNCHANGED <<pc, exc, exit_code>>
    /\ UNCHANGED <<schemas_bundle, data_bundle, results_schemas, results_refs,
                   results_res_paths, results, errors, only_errors, stdout, run, prev>>

FilesDone ==
    /\ pc = "files"
    /\ it.pos > Len(data_bundle)
    /\ pc' = "refs"
    /\ it' = [pos |-> 1, used |-> Len(data_bundle)]
    /\ UNCHANGED <<schemas_bundle, data_bundle, results_schemas, results_files,
                   results_refs, results_res_paths, results, errors, only_errors,
                   stdout, exit_code, exc, run, prev, lib, call>>

\* lines 458-463, one $ref site
ValidateRefUnit ==
    /\ pc = "refs"
    /\ LET units == RefUnits(data_bundle, 1) IN
       /\ it.pos <= Len(units)
       /\ LET u == units[it.pos]
              vkey == <<"REF", u.filename, u.ptr>>
          IN  \E verdict \in Consult(vkey, LibRefVerdicts) :
                 LET r == validate_ref(schemas_bundle, data_bundle, Str(u.filename),
                                       u.data, u.ptr, u.ref, verdict)
                     asked == \E o \in LibRefVerdicts :
                                 validate_ref(schemas_bundle, data_bundle,
                                              Str(u.filename), u.data, u.ptr,
                                              u.ref, o) # r
                 IN  /\ lib' = (IF asked THEN (vkey :> verdict) ELSE <<>>) @@ lib
                     /\ call' = [fn |-> "validate_ref", filename |-> u.filename,
                                 data |-> u.data, ptr |-> u.ptr, ref |-> u.ref,
                                 ret |-> r]
                     /\ IF r.exc # "none"
                        THEN /\ Abort(r.exc)
                             /\ UNCHANGED <<it, results_refs>>
                        ELSE /\ results_refs' = Append(results_refs, dump(r.val))
                             /\ it' = [it EXCEPT !.pos = it.pos + 1]
                             /\ UNCHANGED <<pc, exc, exit_code>>
    /\ UNCHANGED <<schemas_bundle, data_bundle, results_schemas, results_files,
                   results_res_paths, results, errors, only_errors, stdout, run, prev>>

RefsDone ==
    /\ pc = "refs"
    /\ it.pos > Len(RefUnits(data_bundle, 1))
    /\ pc' = "res_paths"
    /\ it' = [pos |-> 1, used |-> Len(data_bundle)]
    /\ UNCHANGED <<schemas_bundle, data_bundle, results_schemas, results_files,
                   results_refs, results_res_paths, results, errors, only_errors,
                   stdout, exit_code, exc, run, prev, lib, call>>

\* lines 466-471, one resource reference
ValidateResourceUnit ==
    /\ pc = "res_paths"
    /\ LET units == ResUnits(data_bundle, 1) IN
       /\ it.pos <= Len(units)
       /\ LET u == units[it.pos]
              path == ValueOf(u.res, K_path)
              fkey == <<"open", path.v, <<>>>>
          IN  \E file \in Consult(fkey, ResourceFiles) :
                 LET r == validate_resource_paths(schemas_bundle, data_bundle,
                                                  Str(u.filename), u.data, u.ptr,
                                                  u.res, file)
                     asked == \E o \in ResourceFiles :
                                 validate_resource_paths(schemas_bundle, data_bundle,
                                                         Str(u.filename), u.data,
                                                         u.ptr, u.res, o) # r
                 IN  /\ lib' = (IF asked THEN (fkey :> file) ELSE <<>>) @@ lib
                     /\ call' = [fn |-> "validate_resource_paths",
                                 filename |-> u.filename, data |-> u.data,
                                 ptr |-> u.ptr, res |-> u.res, ret |-> r]
                     /\ IF r.exc # "none"
                        THEN /\ Abort(r.exc)
                             /\ UNCHANGED <<it, results_res_paths>>
                        ELSE /\ results_res_paths' = Append(results_res_paths, dump(r.val))
                             /\ it' = [it EXCEPT !.pos = it.pos + 1]
                             /\ UNCHANGED <<pc, exc, exit_code>>
    /\ UNCHANGED <<schemas_bundle, data_bundle, results_schemas, results_files,
                   results_refs, results, errors, only_errors, stdout, run, prev>>

\* lines 473-484
Report ==
    /\ pc = "res_paths"
    /\ it.pos > Len(ResUnits(data_bundle, 1))
    /\ LET all == Aggregate(results_schemas, results_files, results_refs,
                            results_res_paths)
           errs == FilterErrors(all)
       IN  /\ results' = all
           /\ errors' = errs
           /\ \E flag \in BOOLEAN :
                 /\ only_errors' = flag
                 /\ stdout' = IF flag THEN errs ELSE all
           /\ exit_code' = ExitStatus(errs)
    /\ pc' = "done"
    /\ UNCHANGED <<schemas_bundle, data_bundle, it, results_schemas, results_files,
                   results_refs, results_res_paths, exc, run, prev, lib, call>>

\* the passes are run again over the bundle as the run left it
Rerun ==
    /\ pc \in {"done", "aborted"}
    /\ run < MaxRuns
    /\ run' = run + 1
    /\ prev' = Append(prev, [pc |-> pc, exc |-> exc, results |-> results])
    /\ pc' = "schemas"
    /\ it' = [pos |-> 1, used |-> Len(schemas_bundle)]
    /\ results_schemas' = <<>>
    /\ results_files' = <<>>
    /\ results_refs' = <<>>
    /\ results_res_paths' = <<>>
    /\ results' = <<>>
    /\ errors' = <<>>
    /\ only_errors' = FALSE
    /\ stdout' = <<>>
    /\ exit_code' = -1
    /\ exc' = "none"
    /\ call' = NoCall
    /\ UNCHANGED <<schemas_bundle, data_bundle, lib>>

Next ==
    \/ ValidateSchemaUnit
    \/ SchemasChangedSize
    \/ SchemasDone
    \/ ValidateFileUnit
    \/ FilesDone
    \/ ValidateRefUnit
    \/ RefsDone
    \/ ValidateResourceUnit
    \/ Report
    \/ Rerun

Spec == Init /\ [][Next]_vars

----------------------------------------------------------------------------
(* Claims about main() *)

FetchFailures == {"HTTPError", "MissingSchemaFile"}

UnitCalls == {"validate_schema", "validate_file", "validate_ref",
              "validate_resource_paths"}

\* C1: every call of validate_schema, validate_file, validate_ref and
\* validate_resource_paths returns an Ok, RefOk or Error outcome, whatever its
\* input; only a failed meta-schema fetch leaves a call as an exception.
C1_EveryUnitReturnsAnOutcome ==
    (call.fn \in UnitCalls /\ run >= 1) =>
        \/ call.ret.exc \in FetchFailures
        \/ /\ call.ret.exc = "none"
           /\ call.ret.val.cls \in {"ValidationOK", "ValidationRefOK", "ValidationError"}

\* the schema pass has fetched a meta-schema and put it into the bundle it
\* iterates
FetchedInSchemaPass ==
    /\ call.fn = "validate_schema"
    /\ call.ret.exc = "none"
    /\ pc \in {"schemas", "aborted"}
    /\ Len(schemas_bundle) > it.used

\* C2: when a schema names a meta-schema that is not in the bundle and the
\* fetch succeeds, the schema pass completes, with one outcome per schema that
\* was in the bundle at the start of the run.
C2_SchemaPassSurvivesFetch ==
    FetchedInSchemaPass =>
        /\ pc # "aborted"
        /\ Len(results_schemas) <= it.used

\* C3: the passes run twice in succession over the same in-memory bundle end
\* the same way with the same outcome sequence, when no fetch fails.
C3_SecondRunIdentical ==
    (run = 2 /\ pc \in {"done", "aborted"}
        /\ exc \notin FetchFailures /\ prev[1].exc \notin FetchFailures) =>
        /\ prev[1].pc = pc
        /\ prev[1].exc = exc
        /\ prev[1].results = results

HasErrorStatus(x) == x.result.status = "ERROR"

\* C4: when a run completes, the exit status is non-zero exactly when some
\* aggregated outcome has status ERROR, with and without --only-errors, and
\* the error list is the subsequence of the aggregated outcomes with status
\* ERROR.
C4_ExitStatusIffError ==
    pc = "done" =>
        /\ (exit_code # 0) <=> (\E k \in 1..Len(results) : HasErrorStatus(results[k]))
        /\ errors = SelectSeq(results, HasErrorStatus)
        /\ stdout = IF only_errors THEN errors ELSE results

\* a completed --only-errors run with outcomes of both statuses
C4_Witness ==
    /\ pc = "done"
    /\ only_errors
    /\ exit_code = 1
    /\ Len(errors) > 0
    /\ Len(errors) < Len(results)

\* the resource references of a document, by position
IsResourceNode(n) ==
    /\ n.t = "obj"
    /\ \E i \in 1..Len(n.v) : n.v[i] = <<K_provider, Str(K_resource)>>
    /\ \E i \in 1..Len(n.v) : n.v[i][1] = K_path

ResourceSites(doc) ==
    {p \in Paths(doc) :
        /\ IsResourceNode(NodeAt(doc, p))
        /\ \A m \in 0..(Len(p) - 1) : ~IsResourceNode(NodeAt(doc, SubSeq(p, 1, m)))}

Repeat(x, n) == [j \in 1..n |-> x]

\* kind and filename of the outcomes a run over the bundles owes, in order
RECURSIVE OwedSchemas(_, _), OwedFiles(_, _), OwedRefs(_, _), OwedResources(_, _)
OwedSchemas(b, i) ==
    IF i > Len(b) THEN <<>> ELSE <<<<SCHEMA, Str(b[i][1])>>>> \o OwedSchemas(b, i + 1)
OwedFiles(b, i) ==
    IF i > Len(b) THEN <<>> ELSE <<<<DATA_FILE, Str(b[i][1])>>>> \o OwedFiles(b, i + 1)
OwedRefs(b, i) ==
    IF i > Len(b) THEN <<>>
    ELSE Repeat(<<REF, Str(b[i][1])>>, Cardinality(RefSites(b[i][2])))
         \o OwedRefs(b, i + 1)
OwedResources(b, i) ==
    IF i > Len(b) THEN <<>>
    ELSE Repeat(<<RESOURCE_PATH, Str(b[i][1])>>, Cardinality(ResourceSites(b[i][2])))
         \o OwedResources(b, i + 1)

\* C5: the report of a completed run holds exactly one outcome per bundled
\* schema, per bundled document, per $ref site and per resource reference,
\* all SCHEMA outcomes first, then all FILE, then all REF, then all
\* RESOURCE_PATH outcomes, each group in bundle iteration order.
C5_OneOutcomePerUnitInOrder ==
    pc = "done" =>
        LET owed == OwedSchemas(schemas_bundle, 1) \o OwedFiles(data_bundle, 1)
                    \o OwedRefs(data_bundle, 1) \o OwedResources(data_bundle, 1)
        IN  /\ Len(results) = Len(owed)
            /\ \A k \in 1..Len(owed) :
                  <<results[k].kind, results[k].filename>> = owed[k]

\* a completed run over two schemas and two documents, with a $ref site and
\* a resource reference
C5_Witness ==
    /\ pc = "done"
    /\ Len(results_schemas) = 2
    /\ Len(results_files) = 2
    /\ Len(results_refs) = 1
    /\ Len(results_res_paths) = 1
    /\ results[1].filename # results[2].filename

----------------------------------------------------------------------------
(* SpecUnit: single calls of validate_schema and validate_file, and of
   validate_ref on a $ref site of a document validate_file has returned for,
   as the passes of main() make them *)

RelativeS == <<"s">>

UnitSubSchemas ==
    {Obj(<<>>),
     Obj(<<<<K_schemaRef, Str(SchemaS)>>>>),
     Obj(<<<<K_schemaRef, Str(SchemaT)>>>>),
     Obj(<<<<K_schemaRef, Obj(<<>>)>>>>),
     Str(<<"x">>)}

UnitSchemas ==
    {Obj(<<>>)}
    \cup {Obj(<<<<K_schema, Str(MetaUrl)>>,
                <<K_properties, Obj(<<<<KeyA, sub>>>>)>>>>) : sub \in UnitSubSchemas}

UnitSchemaBundles == {<<>>} \cup {<<<<SchemaS, d>>>> : d \in UnitSchemas}

\* the referencing document: with no, an absolute, a relative or an unknown
\* $schema, and a $ref to a document that is, or is not, in the bundle
UnitDocs ==
    {Obj(sch \o <<<<KeyA, RefObj(target)>>>>) :
        sch \in {<<>>} \cup {<<<<K_schema, Str(u)>>>> : u \in {SchemaS, RelativeS, SchemaT}},
        target \in {NameE, NameF}}

\* the referenced document
UnitTargets == {Obj(<<>>)} \cup {Obj(<<<<K_schema, Str(u)>>>>) : u \in {SchemaS, SchemaT}}

UnitDataBundles == {<<<<NameD, d>>, <<NameE, e>>>> : d \in UnitDocs, e \in UnitTargets}

InitUnit ==
    /\ schemas_bundle \in UnitSchemaBundles
    /\ data_bundle \in UnitDataBundles
    /\ MainIdle
    /\ pc = "call"
    /\ call = NoCall

CallValidateSchema ==
    /\ pc = "call"
    /\ \E i \in 1..Len(schemas_bundle) :
       \E response \in FetchResponses :
       \E verdict \in LibSchemaVerdicts :
          LET r == validate_schema(schemas_bundle, Str(schemas_bundle[i][1]),
                                   schemas_bundle[i][2], response, verdict)
          IN  /\ call' = [fn |-> "validate_schema", filename |-> schemas_bundle[i][1],
                          data |-> schemas_bundle[i][2], ret |-> r.ret]
              /\ schemas_bundle' = r.sb
    /\ pc' = "returned"
    /\ UNCHANGED <<data_bundle, main_vars_but_pc>>

CallValidateFile ==
    /\ pc = "call"
    /\ \E i \in 1..Len(data_bundle) :
       \E verdict \in LibFileVerdicts :
          call' = [fn |-> "validate_file", filename |-> data_bundle[i][1],
                   data |-> data_bundle[i][2],
                   ret |-> validate_file(schemas_bundle, Str(data_bundle[i][1]),
                                         data_bundle[i][2], verdict)]
    /\ pc' = "returned"
    /\ UNCHANGED <<schemas_bundle, data_bundle, main_vars_but_pc>>

\* site is the position of the $ref object find_refs returned as its j-th
CallValidateRef ==
    /\ pc = "returned"
    /\ call.fn = "validate_file"
    /\ call.ret.exc = "none"
    /\ LET found == find_refs_top(call.data) IN
       \E j \in 1..Len(found) :
       \E verdict \in LibRefVerdicts :
          call' = [fn |-> "validate_ref", filename |-> call.filename,
                   data |-> call.data, ptr |-> found[j][1], ref |-> found[j][2],
                   site |-> CHOOSE p \in RefSites(call.data) :
                               RankOf(RefSites(call.data), p) = j,
                   verdict |-> verdict, file_ret |-> call.ret,
                   ret |-> validate_ref(schemas_bundle, data_bundle,
                                        Str(call.filename), call.data,
                                        found[j][1], found[j][2], verdict)]
    /\ pc' = "returned"
    /\ UNCHANGED <<schemas_bundle, data_bundle, main_vars_but_pc>>

NextUnit == CallValidateSchema \/ CallValidateFile \/ CallValidateRef

SpecUnit == InitUnit /\ [][NextUnit]_vars

IsError(ret, reason) ==
    /\ ret.exc = "none"
    /\ ret.val.cls = "ValidationError"
    /\ ret.val.reason = reason

LacksSchema(d) == d.t = "obj" /\ \A i \in 1..Len(d.v) : d.v[i][1] # K_schema

InBundle(b, name) == \E i \in 1..Len(b) : b[i][1] = name
DocOf(b, name) == b[CHOOSE i \in 1..Len(b) : b[i][1] = name][2]

RefTarget(ref) == ValueOf(ref, K_ref).v

\* C6 as stated: every outcome produced for a document without "$schema" is
\* an Error with reason MISSING_SCHEMA_URL, from validate_schema, from
\* validate_file and from validate_ref on a $ref inside the document.
C6_MissingSchemaAlwaysMissingSchemaUrl ==
    (pc = "returned" /\ LacksSchema(call.data) /\ call.ret.exc = "none") =>
        IsError(call.ret, "MISSING_SCHEMA_URL")

\* C6 amended: for a document without "$schema", validate_schema and
\* validate_file return an Error with reason MISSING_SCHEMA_URL; validate_ref
\* on a $ref inside it returns an Error too, with reason FILE_NOT_FOUND when
\* the target is not in the data bundle and SCHEMA_NOT_FOUND when it is.
C6_MissingSchemaIsAnError ==
    (pc = "returned" /\ LacksSchema(call.data)) =>
        IF call.fn \in {"validate_schema", "validate_file"}
        THEN IsError(call.ret, "MISSING_SCHEMA_URL")
        ELSE IF InBundle(data_bundle, RefTarget(call.ref))
             THEN IsError(call.ret, "SCHEMA_NOT_FOUND")
             ELSE IsError(call.ret, "FILE_NOT_FOUND")

\* validate_ref has returned for a $ref, to a bundled document, inside a
\* document without "$schema" that validate_file has reported
C6_Witness ==
    /\ pc = "returned"
    /\ call.fn = "validate_ref"
    /\ LacksSchema(call.data)
    /\ IsError(call.file_ret, "MISSING_SCHEMA_URL")
    /\ IsError(call.ret, "SCHEMA_NOT_FOUND")

\* the steps of validate_ref, read off the bundles
RefSchemaKnown(c) ==
    /\ c.data.t = "obj"
    /\ ~LacksSchema(c.data)
    /\ ValueOf(c.data, K_schema).t = "str"
    /\ InBundle(schemas_bundle, ValueOf(c.data, K_schema).v)

RefSchema(c) == DocOf(schemas_bundle, ValueOf(c.data, K_schema).v)

\* the reason of the first step that fails, "none" when every step passes
RefFirstFailure(c) ==
    IF ~InBundle(data_bundle, RefTarget(c.ref)) THEN "FILE_NOT_FOUND"
    ELSE IF ~RefSchemaKnown(c) THEN "SCHEMA_NOT_FOUND"
    ELSE LET info == get_schema_info_from_pointer(RefSchema(c), c.ptr)
             target == DocOf(data_bundle, RefTarget(c.ref))
         IN  IF info.exc # "none" THEN "SCHEMA_DEFINITION_NOT_FOUND"
             ELSE IF info.val.t # "obj" \/ ~HasKey(info.val, K_schemaRef) THEN "none"
             ELSE LET expected == ValueOf(info.val, K_schemaRef) IN
                  IF expected.t = "str"
                  THEN IF ~LacksSchema(target) /\ ValueOf(target, K_schema) = expected
                       THEN "none" ELSE "INCORRECT_SCHEMA"
                  ELSE IF c.verdict = "ok" THEN "none"
                       ELSE "SCHEMA_REF_VALIDATION_ERROR"

\* C7: validate_ref returns RefOk(REF, filename, ref.$ref, data.$schema)
\* exactly when the target is in the data bundle, data.$schema is in the schema
\* bundle, the pointer navigates and the $schemaRef there is absent, equal to
\* the target's $schema, or a schema the target validates against; otherwise
\* it returns the Error of the first failing step, and a FILE_NOT_FOUND error
\* carries the $ref value as "ref".
C7_ValidateRefDecision ==
    (pc = "returned" /\ call.fn = "validate_ref") =>
        LET reason == RefFirstFailure(call) IN
        IF reason = "none"
        THEN call.ret = Ret(ValidationRefOK(REF, Str(call.filename),
                                            ValueOf(call.ref, K_ref),
                                            ValueOf(call.data, K_schema)))
        ELSE /\ IsError(call.ret, reason)
             /\ reason = "FILE_NOT_FOUND" =>
                   call.ret.val.kwargs = [ref |-> ValueOf(call.ref, K_ref)]

\* validate_file got past the lookup of the document's schema
FileFoundSchema(ret) ==
    /\ ret.exc = "none"
    /\ ret.val.cls = "ValidationError" =>
          ret.val.reason \notin {"MISSING_SCHEMA_URL", "SCHEMA_NOT_FOUND"}

\* C10: when validate_file finds the governing schema of a document,
\* validate_ref for a $ref of that document whose target exists does not fail
\* with SCHEMA_NOT_FOUND, also when the document's $schema is relative.
C10_SameSchemaResolution ==
    (pc = "returned" /\ call.fn = "validate_ref"
        /\ FileFoundSchema(call.file_ret)
        /\ InBundle(data_bundle, RefTarget(call.ref))) =>
        ~IsError(call.ret, "SCHEMA_NOT_FOUND")

----------------------------------------------------------------------------
(* SpecNav: validate_file, then validate_ref, on a document with one $ref
   site under at most MaxDepth keys and array indices, against a schema of at
   most MaxDepth levels of "properties" and "items" *)

NavWraps(cur) == {Obj(<<<<k, cur>>>>) : k \in WalkKeys} \cup {Arr(<<cur>>)}

RECURSIVE NavSpines(_)
NavSpines(d) ==
    IF d = 0 THEN {RefObj(NameE)}
    ELSE LET T == NavSpines(d - 1) IN T \cup UNION {NavWraps(t) : t \in T}

NavDocs ==
    {Obj(<<<<K_schema, Str(SchemaS)>>, <<k, t>>>>) :
        k \in WalkKeys, t \in NavSpines(MaxDepth - 1)}

NavSchemaLeaves == {Obj(<<<<K_schemaRef, Str(SchemaT)>>>>), Obj(<<>>), Str(<<"x">>)}

NavSchemaWraps(cur) ==
    {Obj(<<<<K_properties, Obj(<<<<k, cur>>>>)>>>>) : k \in WalkKeys}
    \cup {Obj(<<<<K_items, cur>>>>)}
    \cup {Obj(<<<<K_properties, Obj(<<<<KeyDigit, cur>>>>)>>, <<K_items, Obj(<<>>)>>>>)}

RECURSIVE NavSchemas(_)
NavSchemas(d) ==
    IF d = 0 THEN NavSchemaLeaves
    ELSE LET T == NavSchemas(d - 1) IN T \cup UNION {NavSchemaWraps(t) : t \in T}

InitNav ==
    /\ \E schema \in NavSchemas(MaxDepth) : schemas_bundle = <<<<SchemaS, schema>>>>
    /\ \E doc \in NavDocs :
          data_bundle = <<<<NameD, doc>>, <<NameE, Obj(<<<<K_schema, Str(SchemaT)>>>>)>>>>
    /\ MainIdle
    /\ pc = "call"
    /\ call = NoCall

NextNav == CallValidateFile \/ CallValidateRef

SpecNav == InitNav /\ [][NextNav]_vars

\* the sub-schema for the document location p: "items" for a step into an
\* array, properties[key] for a step into an object; "miss" when the schema
\* has no such location
RECURSIVE SchemaAt(_, _, _)
SchemaAt(schema, doc, p) ==
    IF p = <<>> THEN Ret(schema)
    ELSE IF schema.t # "obj" THEN Raise("miss")
    ELSE IF doc.t = "arr"
    THEN IF HasKey(schema, K_items)
         THEN SchemaAt(ValueOf(schema, K_items), Child(doc, p[1]), Tail(p))
         ELSE Raise("miss")
    ELSE IF HasKey(schema, K_properties)
            /\ ValueOf(schema, K_properties).t = "obj"
            /\ HasKey(ValueOf(schema, K_properties), StepName(doc, p[1]))
         THEN SchemaAt(ValueOf(ValueOf(schema, K_properties), StepName(doc, p[1])),
                       Child(doc, p[1]), Tail(p))
         ELSE Raise("miss")

\* C9: for a pointer find_refs produced, get_schema_info_from_pointer returns
\* the sub-schema of the matching schema location, or misses and validate_ref
\* returns an Error with reason SCHEMA_DEFINITION_NOT_FOUND; it never returns
\* the sub-schema of another location and a miss never leaves validate_ref in
\* another way.
C9_PointerFindsMatchingLocation ==
    (pc = "returned" /\ call.fn = "validate_ref" /\ RefSchemaKnown(call)
        /\ InBundle(data_bundle, RefTarget(call.ref))) =>
        LET info == get_schema_info_from_pointer(RefSchema(call), call.ptr)
            at == SchemaAt(RefSchema(call), call.data, call.site)
        IN  \/ info.exc = "none" /\ at.exc = "none" /\ info.val = at.val
            \/ info.exc # "none" /\ IsError(call.ret, "SCHEMA_DEFINITION_NOT_FOUND")

====
